---- MODULE Spec2Model ----
(***************************************************************************)
(* A model of pycv: the LaTeX text sanitizers (pycv/utils.py, pycv/pycv.py)*)
(* the cost tracker (pycv/cost_tracker.py), the generative content         *)
(* provider (pycv/ai.py) and the orchestrator (pycv/pycv.py, main.py).     *)
(*                                                                         *)
(* Texts are sequences of one-character strings, so that the replace       *)
(* passes of the sanitizers are computed character by character.           *)
(***************************************************************************)
EXTENDS Integers, Sequences, FiniteSets, TLC

VARIABLES
    text,        \* sanitizer: the input string
    sanitized,   \* sanitizer: [fn, out] once a sanitizer has been applied
    pricing,     \* CostTracker.pricing: provider -> ordered table of entries
    calls,       \* CostTracker.calls
    total_tokens,\* CostTracker.total_tokens
    total_cost,  \* CostTracker.total_cost
    provider_type, \* Ai.provider_type
    ailog,       \* the provider operations invoked, the backend requests they
                 \* sent and what they returned or raised, in order
    env,         \* the environment: the backend selected, the variables set
    store,       \* the data store after load_data
    pc,          \* where the run is
    via,         \* the entry point the run took
    exc,         \* the exception that ended the run, "none" otherwise
    latex,       \* the sections generated so far
    files,       \* the files opened for writing
    datadir,     \* the data directory: file name -> content
    loaded,      \* the store's attributes after each load_data, in order
    joblink,     \* the job posting input given on construction
    posted,      \* the `job` values substituted into prompts
    pricing_json,\* the local pricing.json
    remote,      \* what the remote pricing source answers
    fetched,     \* how often the remote pricing source was fetched
    logs,        \* the cost logs written by save_log, in order
    printed,     \* what print_summary printed, in order
    compile,     \* main: --compile / --no-compile
    typeset      \* the files xelatex was run on, in order

sanVars  == <<text, sanitized>>
costVars == <<pricing, calls, total_tokens, total_cost>>
aiVars   == <<provider_type, ailog>>
runVars  == <<env, store, pc, via, exc, latex, files>>
dataVars == <<datadir, loaded>>
jobVars  == <<joblink, posted, compile, typeset>>
srcVars  == <<pricing_json, remote, fetched, logs, printed>>
vars     == <<text, sanitized, pricing, calls, total_tokens, total_cost,
              provider_type, ailog, env, store, pc, via, exc, latex, files,
              datadir, loaded, joblink, posted, pricing_json, remote, fetched,
              logs, printed, compile, typeset>>

-----------------------------------------------------------------------------
(* Bounds of the model *)

\* longest input text given to a sanitizer
MaxLen == 3

-----------------------------------------------------------------------------
(* Texts *)

BS == "\\"
NL == "\n"

\* the characters the sanitizers are tried on: the twelve reserved ones,
\* a newline and a plain letter
Chars == {BS, "_", "%", "&", "#", "$", "{", "}", "~", "^", "<", ">", NL, "a"}

RECURSIVE Concat(_)
\* "".join(parts) for a sequence of texts
Concat(parts) ==
    IF parts = <<>> THEN <<>> ELSE Head(parts) \o Concat(Tail(parts))

RECURSIVE Replace(_, _, _)
\* str.replace(old, new) for a one-character old
Replace(s, old, new) ==
    IF s = <<>> THEN <<>>
    ELSE IF Head(s) = old THEN new \o Replace(Tail(s), old, new)
    ELSE <<Head(s)>> \o Replace(Tail(s), old, new)

RECURSIVE ReplacePair(_, _, _, _)
\* str.replace(c1 + c2, new): left to right, non-overlapping
ReplacePair(s, c1, c2, new) ==
    IF Len(s) < 2 THEN s
    ELSE IF s[1] = c1 /\ s[2] = c2
         THEN new \o ReplacePair(SubSeq(s, 3, Len(s)), c1, c2, new)
    ELSE <<Head(s)>> \o ReplacePair(Tail(s), c1, c2, new)

RECURSIVE ApplyAll(_, _)
\* for char, replacement in replacements: text = text.replace(char, replacement)
ApplyAll(s, reps) ==
    IF reps = <<>> THEN s
    ELSE ApplyAll(Replace(s, Head(reps)[1], Head(reps)[2]), Tail(reps))

Contains(s, c) == \E i \in 1..Len(s) : s[i] = c

-----------------------------------------------------------------------------
(* pycv/utils.py *)

\* the replacements list of sanitize_text_for_latex, in its order
replacements == <<
    <<BS,  <<BS, "t", "e", "x", "t", "b", "a", "c", "k", "s", "l", "a", "s", "h", "{", "}">> >>,
    <<"_", <<BS, "_">> >>,
    <<"%", <<BS, "%">> >>,
    <<"&", <<BS, "&">> >>,
    <<"#", <<BS, "#">> >>,
    <<"$", <<BS, "$">> >>,
    <<"{", <<BS, "{">> >>,
    <<"}", <<BS, "}">> >>,
    <<"~", <<BS, "t", "e", "x", "t", "a", "s", "c", "i", "i", "t", "i", "l", "d", "e", "{", "}">> >>,
    <<"^", <<BS, "t", "e", "x", "t", "a", "s", "c", "i", "i", "c", "i", "r", "c", "u", "m", "{", "}">> >>,
    <<"<", <<BS, "t", "e", "x", "t", "l", "e", "s", "s", "{", "}">> >>,
    <<">", <<BS, "t", "e", "x", "t", "g", "r", "e", "a", "t", "e", "r", "{", "}">> >> >>

\* sanitize_text_for_latex(text) for a str argument
sanitize_text_for_latex(s) ==
    ReplacePair(ApplyAll(s, replacements), NL, NL, <<NL, BS, "p", "a", "r", NL>>)

-----------------------------------------------------------------------------
(* pycv/pycv.py: PyCv._latex_escape *)

latex_escape_list == <<BS, "^", "~", "&", "%", "$", "#", "_", "{", "}">>

latex_escape_change_to == <<
    <<"$", BS, "b", "a", "c", "k", "s", "l", "a", "s", "h", "$">>,
    <<BS, "^", "{", "}">>,
    <<BS, "t", "e", "x", "t", "t", "t", "{", BS, "~", "{", "}", "}">>,
    <<BS, "&">>, <<BS, "%">>, <<BS, "$">>, <<BS, "#">>, <<BS, "_">>,
    <<BS, "{">>, <<BS, "}">> >>

RECURSIVE LatexEscapeFrom(_, _)
\* the for loop of _latex_escape from index i on: the first listed character
\* found in the text is replaced, then the loop breaks
LatexEscapeFrom(s, i) ==
    IF i > Len(latex_escape_list) THEN s
    ELSE IF Contains(s, latex_escape_list[i])
         THEN Replace(s, latex_escape_list[i], latex_escape_change_to[i])
    ELSE LatexEscapeFrom(s, i + 1)

latex_escape(s) == LatexEscapeFrom(s, 1)

-----------------------------------------------------------------------------
(* The sanitizers applied to every bounded text *)

Texts == UNION {[1..n -> Chars] : n \in 0..MaxLen}

NotApplied == [fn |-> "none", out |-> <<>>]

SanInit == text \in Texts /\ sanitized = NotApplied

SanParked == text = <<>> /\ sanitized = NotApplied

Sanitize ==
    /\ sanitized = NotApplied
    /\ sanitized' = [fn |-> "sanitize_text_for_latex", out |-> sanitize_text_for_latex(text)]
    /\ UNCHANGED text

LatexEscape ==
    /\ sanitized = NotApplied
    /\ sanitized' = [fn |-> "_latex_escape", out |-> latex_escape(text)]
    /\ UNCHANGED text

-----------------------------------------------------------------------------
(* pycv/cost_tracker.py *)

\* Prices are in hundredths of a dollar per million tokens and costs in units
\* of 10^-8 dollar, so that (tokens / 1_000_000) * price is tokens * price.

\* the fallback rate of track_call: $5 and $15 per million tokens
FallbackInput == 500
FallbackOutput == 1500

\* most entries of one provider's price table
MaxEntries == 2

\* model names: the keys of the price tables and the names given to track_call
TableNames == {<<"a">>, <<"b">>, <<"a", "b">>}
CallNames == {<<"a">>, <<"a", "b">>, <<"b", "a">>, <<"c">>}
PricePairs == {[input |-> 300, output |-> 1500], [input |-> 25, output |-> 125]}
TokenPairs == {[input |-> 1000, output |-> 500], [input |-> 3, output |-> 0]}
Providers == {"anthropic", "other"}

Entries == {[model |-> m, input |-> p.input, output |-> p.output] :
                m \in TableNames, p \in PricePairs}

\* a dict keeps its keys unique and in insertion order
Tables == {t \in UNION {[1..n -> Entries] : n \in 0..MaxEntries} :
              \A i, j \in 1..Len(t) : t[i].model = t[j].model => i = j}

\* a price table: each provider is absent or has a table
PricingTables == UNION {[present -> Tables] : present \in SUBSET Providers}

\* `a in b` for two str
IsSubstring(a, b) ==
    \E k \in 0..(Len(b) - Len(a)) : \A i \in 1..Len(a) : b[k + i] = a[i]

\* `provider in self.pricing`
HasProvider(table, provider) == provider \in DOMAIN table

\* `model in self.pricing[provider]`
HasModel(t, model) == \E i \in 1..Len(t) : t[i].model = model

ExactEntry(t, model) == t[CHOOSE i \in 1..Len(t) : t[i].model = model]

RECURSIVE FirstSimilar(_, _, _)
\* the loop `for priced_model in self.pricing[...]` with its break: the index
\* of the first entry whose name contains the model name or is contained in
\* it, 0 when the loop ends without a match
FirstSimilar(t, model, i) ==
    IF i > Len(t) THEN 0
    ELSE IF IsSubstring(t[i].model, model) \/ IsSubstring(model, t[i].model) THEN i
    ELSE FirstSimilar(t, model, i + 1)

Rate(entry, source) == [input |-> entry.input, output |-> entry.output, source |-> source]

FallbackRate == [input |-> FallbackInput, output |-> FallbackOutput, source |-> "fallback"]

\* the second half of the else branch of track_call: the 'other' category,
\* then the fallback rate
OtherRate(table, model) ==
    IF HasProvider(table, "other") /\ FirstSimilar(table["other"], model, 1) # 0
    THEN Rate(table["other"][FirstSimilar(table["other"], model, 1)], "other")
    ELSE FallbackRate

\* the price lookup with the similar-name loop tried before the exact entry
PriceFor_SimilarFirst(table, provider, model) ==
    IF HasProvider(table, provider) /\ FirstSimilar(table[provider], model, 1) # 0
    THEN Rate(table[provider][FirstSimilar(table[provider], model, 1)], "similar")
    ELSE OtherRate(table, model)

\* the price track_call computes the cost with
PriceFor(table, provider, model) ==
    IF HasProvider(table, provider) /\ HasModel(table[provider], model)
    THEN Rate(ExactEntry(table[provider], model), "exact")
    ELSE IF HasProvider(table, provider) /\ FirstSimilar(table[provider], model, 1) # 0
         THEN Rate(table[provider][FirstSimilar(table[provider], model, 1)], "similar")
    ELSE OtherRate(table, model)

\* the call_data record with the output cost computed at the input price
CallData_InputPriceForOutput(table, provider, model, input_tokens, output_tokens, operation) ==
    LET rate == PriceFor(table, provider, model)
        input_cost == input_tokens * rate.input
        output_cost == output_tokens * rate.input
    IN  [provider |-> provider, model |-> model, operation |-> operation,
         tokens |-> [input |-> input_tokens, output |-> output_tokens,
                     total |-> input_tokens + output_tokens],
         cost |-> [input |-> input_cost, output |-> output_cost,
                   total |-> input_cost + output_cost]]

\* the call_data record of track_call (without its timestamp)
CallData(table, provider, model, input_tokens, output_tokens, operation) ==
    LET rate == PriceFor(table, provider, model)
        input_cost == input_tokens * rate.input
        output_cost == output_tokens * rate.output
    IN  [provider |-> provider, model |-> model, operation |-> operation,
         tokens |-> [input |-> input_tokens, output |-> output_tokens,
                     total |-> input_tokens + output_tokens],
         cost |-> [input |-> input_cost, output |-> output_cost,
                   total |-> input_cost + output_cost]]

\* the tracking data of a tracker
Tracker == [calls |-> calls, total_tokens |-> total_tokens, total_cost |-> total_cost]

\* the record put in front of the list
TrackerAfter_Prepend(tr, provider, model, input_tokens, output_tokens, operation) ==
    LET call_data == CallData(pricing, provider, model, input_tokens, output_tokens, operation)
    IN  [calls |-> <<call_data>> \o tr.calls,
         total_tokens |-> [input |-> tr.total_tokens.input + input_tokens,
                           output |-> tr.total_tokens.output + output_tokens],
         total_cost |-> tr.total_cost + call_data.cost.total]

\* the tracking data after track_call: the record appended, the totals raised
TrackerAfter(tr, provider, model, input_tokens, output_tokens, operation) ==
    LET call_data == CallData(pricing, provider, model, input_tokens, output_tokens, operation)
    IN  [calls |-> Append(tr.calls, call_data),
         total_tokens |-> [input |-> tr.total_tokens.input + input_tokens,
                           output |-> tr.total_tokens.output + output_tokens],
         total_cost |-> tr.total_cost + call_data.cost.total]

\* CostTracker.track_call
TrackCall(provider, model, input_tokens, output_tokens, operation) ==
    LET after == TrackerAfter(Tracker, provider, model, input_tokens, output_tokens, operation)
    IN  /\ calls' = after.calls
        /\ total_tokens' = after.total_tokens
        /\ total_cost' = after.total_cost
        /\ UNCHANGED pricing

\* the list emptied, the total cost left as it was
Reset_KeepsCost ==
    /\ calls' = <<>>
    /\ total_tokens' = [input |-> 0, output |-> 0]
    /\ UNCHANGED <<total_cost, pricing>>

\* CostTracker.reset
Reset ==
    /\ calls' = <<>>
    /\ total_tokens' = [input |-> 0, output |-> 0]
    /\ total_cost' = 0
    /\ UNCHANGED pricing

\* the tracker after __init__, whatever price table was loaded
CostInit ==
    /\ pricing \in PricingTables
    /\ calls = <<>>
    /\ total_tokens = [input |-> 0, output |-> 0]
    /\ total_cost = 0

CostParked ==
    /\ pricing = <<>>
    /\ calls = <<>>
    /\ total_tokens = [input |-> 0, output |-> 0]
    /\ total_cost = 0

\* one call of track_call on a fresh tracker
TrackFirstCall ==
    /\ calls = <<>>
    /\ \E provider \in Providers, model \in CallNames, tokens \in TokenPairs :
           TrackCall(provider, model, tokens.input, tokens.output, "get_summary")

-----------------------------------------------------------------------------
(* pycv/ai.py: the values of the provider *)

\* A fixed wording is a text of one element, which no replace pass changes.
Phrase(words) == <<words>>

None == [type |-> "None"]

Summary(t) == [type |-> "Summary", summary |-> t]

Letterinfo(recipient, subject, opening, content) ==
    [type |-> "Letterinfo", recipient |-> recipient, subject |-> subject,
     opening |-> opening, content |-> content]

List(items) == [type |-> "list", items |-> items]

JobDescription(job, description) == [job |-> job, description |-> description]

Cvitem(job, item) == [job |-> job, item |-> item]

CarStory(job, challenge) == [job |-> job, challenge |-> challenge]

\* the response models ask is given
RespModels == {"Summary", "Letterinfo", "Iterable[JobDescription]",
               "Iterable[Cvitem]", "Iterable[CarStory]"}

\* issubclass(respmodel, BaseModel): Summary and Letterinfo are classes, an
\* Iterable[...] alias is not
IsBaseModel(respmodel) == respmodel \in {"Summary", "Letterinfo"}

Returned(v) == [status |-> "returned", value |-> v, track |-> <<>>]

Raised(e) == [status |-> "raised", value |-> [type |-> e], track |-> <<>>]

\* The chain `if issubclass(respmodel, Summary) ... else: return respmodel()`
\* that ask runs when the request failed or the response is unusable. For an
\* Iterable[...] alias issubclass raises TypeError (the alias is no class); where
\* the metaclass answers False instead, the test `respmodel.__origin__ is
\* Iterable` compares collections.abc.Iterable with typing.Iterable and fails,
\* and respmodel() raises TypeError (the alias cannot be instantiated).
FallbackFor(respmodel) ==
    IF respmodel = "Summary"
    THEN Returned(Summary(Phrase("Failed to generate summary due to API error.")))
    ELSE IF respmodel = "Letterinfo"
    THEN Returned(Letterinfo(<<Phrase("Company")>>, Phrase("Application"),
                             Phrase("Dear Hiring Manager,"),
                             Phrase("Failed to generate content due to API error.")))
    ELSE Raised("TypeError")

\* the same chain in the JSONDecodeError handler of the custom provider: the
\* raw content wrapped into the response model
TextFallbackFor(respmodel, content) ==
    IF respmodel = "Summary" THEN Returned(Summary(content))
    ELSE IF respmodel = "Letterinfo"
    THEN Returned(Letterinfo(<<Phrase("Company")>>, Phrase("Application"),
                             Phrase("Dear Hiring Manager,"), content))
    ELSE Raised("TypeError")

NoUsage == [input |-> -1, output |-> -1]

\* len(str(response)) of a response
RECURSIVE ItemsStrLen(_)
ItemsStrLen(items) ==
    IF items = <<>> THEN 0
    ELSE 8 + (IF "description" \in DOMAIN Head(items) THEN Len(Head(items).description)
              ELSE IF "item" \in DOMAIN Head(items) THEN Len(Head(items).item)
              ELSE Len(Head(items).challenge))
           + ItemsStrLen(Tail(items))

StrLen(v) ==
    IF v.type = "Summary" THEN 10 + Len(v.summary)
    ELSE IF v.type = "Letterinfo" THEN 40 + Len(v.content)
    ELSE IF v.type = "list" THEN 2 + ItemsStrLen(v.items)
    ELSE 4

\* The token counts ask records for a response: the counts the backend reports;
\* when it reports none, or reports zero for both, len(prompt) // 4 and
\* len(str(response)) // 4.
TokensOf(usage, prompt_len, response) ==
    IF usage = NoUsage \/ (usage.input = 0 /\ usage.output = 0)
    THEN [input |-> prompt_len \div 4, output |-> StrLen(response) \div 4]
    ELSE usage

\* ask with the anthropic or the openai provider (the instructor client)
AskInstructor(respmodel, prompt_len, o) ==
    IF o.kind = "raise" THEN FallbackFor(respmodel)
    ELSE [status |-> "returned", value |-> o.value,
          track |-> <<TokensOf(o.usage, prompt_len, o.value)>>]

\* ask with the custom provider (the raw client and the decoding by hand)
AskCustom(respmodel, prompt_len, o) ==
    IF o.kind = "raise" THEN Raised("APIError")
    ELSE IF o.kind = "invalid" THEN FallbackFor(respmodel)
    ELSE IF o.kind = "text" THEN TextFallbackFor(respmodel, o.raw)
    ELSE IF ~IsBaseModel(respmodel) THEN Raised("TypeError")
    ELSE IF o.kind = "json_valid" THEN Returned(o.value)
    ELSE Raised("ValidationError")

\* Ai.ask: what it returns or raises and the call it has tracked, given what
\* the backend did with the request
Ask(provider, respmodel, prompt_len, o) ==
    IF provider = "custom" THEN AskCustom(respmodel, prompt_len, o)
    ELSE AskInstructor(respmodel, prompt_len, o)

-----------------------------------------------------------------------------
(* pycv/ai.py: the four operations *)

\* the event of ailog
Event(ev, op, val) == [ev |-> ev, op |-> op, val |-> val]

\* a request sent to the backend, with what the backend did: the kind of its
\* answer, the usage it reported, the response it gave and its raw content
Request(operation, o) ==
    Event("request", operation,
          [type |-> o.kind, usage |-> o.usage, response |-> o.value, raw |-> o.raw])

\* the tracked calls of one ask
Tracks(operation, r) ==
    [i \in 1..Len(r.track) |-> [operation |-> operation, tokens |-> r.track[i]]]

\* what an operation did: the events, the outcome, the calls to track
Done(events, status, value, tracks) ==
    [events |-> events, status |-> status, value |-> value, tracks |-> tracks]

\* the chained str.replace of get_job_summaries on one description
EscapeDescription(s) ==
    ApplyAll(s, << <<"_", <<BS, "_">> >>, <<"%", <<BS, "%">> >>, <<"&", <<BS, "&">> >>,
                   <<"#", <<BS, "#">> >>, <<"$", <<BS, "$">> >>, <<"{", <<BS, "{">> >>,
                   <<"}", <<BS, "}">> >> >>)

\* the request sent once more when it failed
get_summary_Retry(provider, prompt_len, o) ==
    LET r == Ask(provider, "Summary", prompt_len, o)
    IN  Done(<<Event("call", "get_summary", None), Request("get_summary", o)>>
             \o (IF o.kind = "raise" THEN <<Request("get_summary", o)>> ELSE <<>>)
             \o <<Event(r.status, "get_summary", r.value)>>,
             r.status, r.value, Tracks("get_summary", r))

\* Ai.get_summary
get_summary(provider, prompt_len, o) ==
    LET r == Ask(provider, "Summary", prompt_len, o)
    IN  Done(<<Event("call", "get_summary", None), Request("get_summary", o),
               Event(r.status, "get_summary", r.value)>>,
             r.status, r.value, Tracks("get_summary", r))

\* Ai.get_letterinfo
get_letterinfo(provider, prompt_len, o) ==
    LET r == Ask(provider, "Letterinfo", prompt_len, o)
    IN  Done(<<Event("call", "get_letterinfo", None), Request("get_letterinfo", o),
               Event(r.status, "get_letterinfo", r.value)>>,
             r.status, r.value, Tracks("get_letterinfo", r))

\* Ai.get_job_summaries
get_job_summaries(provider, prompt_len, o) ==
    LET r == Ask(provider, "Iterable[JobDescription]", prompt_len, o)
        value ==
            IF r.status = "raised" \/ r.value = None THEN List(<<>>)
            ELSE List([i \in 1..Len(r.value.items) |->
                          JobDescription(r.value.items[i].job,
                                         EscapeDescription(r.value.items[i].description))])
    IN  Done(<<Event("call", "get_job_summaries", None),
               Request("get_job_summaries", o),
               Event("returned", "get_job_summaries", value)>>,
             "returned", value, Tracks("get_job_summaries", r))

\* the refinement request: the request with what its prompt was formatted
\* with, the selected stories as `cars` and the descriptions given
RefineRequest(o, cars, descriptions) ==
    Event("request", "refine_experience_items",
          [type |-> o.kind, usage |-> o.usage, response |-> o.value, raw |-> o.raw,
           cars |-> cars, descriptions |-> descriptions])

\* the refinement requested also when no story was selected
get_experience_AlwaysRefine(provider, descriptions, prompt_len, o1, o2) ==
    LET r1 == Ask(provider, "Iterable[CarStory]", prompt_len, o1)
        selected == IF r1.status = "raised" \/ r1.value = None THEN <<>> ELSE r1.value.items
        r2 == Ask(provider, "Iterable[Cvitem]", prompt_len, o2)
        value == IF r2.status = "raised" \/ r2.value = None THEN List(<<>>) ELSE r2.value
        first == <<Event("call", "get_experience", descriptions),
                   Request("get_experience_stories", o1)>>
    IN  Done(first \o <<RefineRequest(o2, selected, descriptions),
                        Event("returned", "get_experience", value)>>,
             "returned", value,
             Tracks("get_experience_stories", r1) \o Tracks("refine_experience_items", r2))

\* Ai.get_experience
get_experience(provider, descriptions, prompt_len, o1, o2) ==
    LET r1 == Ask(provider, "Iterable[CarStory]", prompt_len, o1)
        selected == IF r1.status = "raised" \/ r1.value = None THEN <<>> ELSE r1.value.items
        r2 == Ask(provider, "Iterable[Cvitem]", prompt_len, o2)
        value == IF r2.status = "raised" \/ r2.value = None THEN List(<<>>) ELSE r2.value
        first == <<Event("call", "get_experience", descriptions),
                   Request("get_experience_stories", o1)>>
    IN  IF selected = <<>>
        THEN Done(first \o <<Event("returned", "get_experience", List(<<>>))>>,
                  "returned", List(<<>>), Tracks("get_experience_stories", r1))
        ELSE Done(first \o <<RefineRequest(o2, selected, descriptions),
                             Event("returned", "get_experience", value)>>,
                  "returned", value,
                  Tracks("get_experience_stories", r1) \o Tracks("refine_experience_items", r2))

-----------------------------------------------------------------------------
(* The backend: what it may do with a request *)

\* generated free texts: a plain one, and one with reserved characters
GenTexts == {<<"a">>, <<"%", "~">>}

Usages == {NoUsage, [input |-> 1000, output |-> 500], [input |-> 0, output |-> 0]}

\* len(prompt) of the prompts sent
PromptLens == {42}

Outcome(kind, value, usage, raw) ==
    [kind |-> kind, value |-> value, usage |-> usage, raw |-> raw]

RequestRaises == Outcome("raise", None, NoUsage, <<>>)

\* the instructor client raises or returns a decoded response
InstructorOutcomes(values, usages) ==
    {RequestRaises} \cup {Outcome("response", v, u, <<>>) : v \in values, u \in usages}

\* the raw client raises, returns no choices, or returns a content that is no
\* JSON, JSON that validates against the response model, or JSON that does not
CustomOutcomes(values) ==
    {RequestRaises, Outcome("invalid", None, NoUsage, <<>>),
     Outcome("json_invalid", None, NoUsage, <<>>)}
    \cup {Outcome("text", None, NoUsage, t) : t \in GenTexts}
    \cup {Outcome("json_valid", v, NoUsage, <<>>) : v \in values}

Outcomes(provider, values, usages) ==
    IF provider = "custom" THEN CustomOutcomes(values)
    ELSE InstructorOutcomes(values, usages)

SummaryValues == {Summary(t) : t \in GenTexts}

LetterinfoValues ==
    {Letterinfo(<<Phrase("Acme")>>, Phrase("Your opening"), Phrase("Dear Sir,"), t) :
         t \in GenTexts}

ListValues(lists) == {List(l) : l \in lists} \cup {None}

\* the lists the backend answers with in a run
RunDescriptions ==
    {<<>>, <<JobDescription(1, <<"a">>)>>,
     <<JobDescription(2, <<"%", "~">>), JobDescription(1, <<"a">>)>>}

RunStories == {<<>>, <<CarStory(1, <<"a">>)>>}

RunItems == {<<>>, <<Cvitem(1, <<"a">>), Cvitem(3, <<"%", "~">>)>>}

-----------------------------------------------------------------------------
(* An Ai object and its cost tracker *)

\* Ai.model, and the price table of its tracker (names shortened)
AiModel == <<"a", "b">>

DefaultPricing ==
    [p \in {"anthropic", "openai"} |->
        IF p = "anthropic"
        THEN <<[model |-> <<"a">>, input |-> 300, output |-> 1500],
               [model |-> <<"b">>, input |-> 25, output |-> 125]>>
        ELSE <<[model |-> <<"a", "b">>, input |-> 500, output |-> 1500]>>]

RECURSIVE TrackAll(_, _)
\* the track_call of each ask of an operation, in order
TrackAll(tr, tracks) ==
    IF tracks = <<>> THEN tr
    ELSE TrackAll(TrackerAfter(tr, provider_type, AiModel, Head(tracks).tokens.input,
                               Head(tracks).tokens.output, Head(tracks).operation),
                  Tail(tracks))

\* prompt.format(..., job=joblink): the text each prompt of an operation gets
\* as the job posting, one prompt for each request
PromptJobs(events, link) ==
    LET IsRequest(e) == e.ev = "request"
        requests == SelectSeq(events, IsRequest)
    IN  [i \in 1..Len(requests) |-> link]

\* the effect of a provider operation on the tracker, on the log and on the
\* prompts sent
Performed(d) ==
    LET after == TrackAll(Tracker, d.tracks)
    IN  /\ ailog' = ailog \o d.events
        /\ posted' = posted \o PromptJobs(d.events, joblink)
        /\ joblink' = joblink
        /\ UNCHANGED <<compile, typeset>>
        /\ calls' = after.calls
        /\ total_tokens' = after.total_tokens
        /\ total_cost' = after.total_cost
        /\ UNCHANGED <<pricing, provider_type>>

AiInit ==
    /\ provider_type \in {"anthropic", "openai", "custom"}
    /\ ailog = <<>>
    /\ pricing = DefaultPricing
    /\ calls = <<>>
    /\ total_tokens = [input |-> 0, output |-> 0]
    /\ total_cost = 0

AiParked == provider_type = "anthropic" /\ ailog = <<>>

\* the Ai operations are given a URL as joblink
JobParked ==
    /\ joblink = "https://example.org/job" /\ posted = <<>>
    /\ compile = FALSE /\ typeset = <<>>

\* most operations called on one Ai object
MaxAiCalls == 2

Invocations == Cardinality({i \in 1..Len(ailog) : ailog[i].ev = "call"})

AiGetSummary ==
    /\ Invocations < MaxAiCalls
    /\ \E o \in Outcomes(provider_type, SummaryValues, Usages), n \in PromptLens :
           Performed(get_summary(provider_type, n, o))

AiGetLetterinfo ==
    /\ Invocations < MaxAiCalls
    /\ \E o \in Outcomes(provider_type, LetterinfoValues, Usages), n \in PromptLens :
           Performed(get_letterinfo(provider_type, n, o))

AiGetJobSummaries ==
    /\ Invocations < MaxAiCalls
    /\ \E o \in Outcomes(provider_type, ListValues(RunDescriptions), Usages), n \in PromptLens :
           Performed(get_job_summaries(provider_type, n, o))

AiGetExperience ==
    /\ Invocations < MaxAiCalls
    /\ \E descriptions \in RunDescriptions, n \in PromptLens,
          o1 \in Outcomes(provider_type, ListValues(RunStories), Usages),
          o2 \in Outcomes(provider_type, ListValues(RunItems), Usages) :
           Performed(get_experience(provider_type, List(descriptions), n, o1, o2))

-----------------------------------------------------------------------------
(* pycv/pycv.py: the experience section *)

\* the block with the stories of every job in it
JobBlock_EveryStory(job, carstories, jobdescriptions) ==
    LET OfJob(r) == r.job = job
        jobdesc == SelectSeq(jobdescriptions, OfJob)
        jobentry == IF Len(jobdesc) > 0 THEN <<jobdesc[1].description>> ELSE <<>>
        stories == [i \in 1..Len(carstories) |-> latex_escape(carstories[i].item)]
    IN  [job |-> job, jobentry |-> jobentry, stories |-> stories,
         content |-> IF Len(jobentry) + Len(stories) > 0 THEN "{...}" ELSE "{}"]

\* the \cventry of one job and the content after it: the first description
\* that matches the job, when there is one, and every matching story as an
\* \item of escaped text; "{}" when there is neither
JobBlock(job, carstories, jobdescriptions) ==
    LET OfJob(r) == r.job = job
        jobstories == SelectSeq(carstories, OfJob)
        jobdesc == SelectSeq(jobdescriptions, OfJob)
        jobentry == IF Len(jobdesc) > 0 THEN <<jobdesc[1].description>> ELSE <<>>
        stories == [i \in 1..Len(jobstories) |-> latex_escape(jobstories[i].item)]
    IN  [job |-> job, jobentry |-> jobentry, stories |-> stories,
         content |-> IF Len(jobentry) + Len(stories) > 0 THEN "{...}" ELSE "{}"]

\* the loop leaving out the jobs that have neither a description nor a story
ExperienceBlocks_SkipEmpty(jobs, carstories, jobdescriptions) ==
    LET HasContent(b) == b.content # "{}"
    IN  SelectSeq([k \in 1..Len(jobs) |-> JobBlock(jobs[k], carstories, jobdescriptions)],
                  HasContent)

\* the loop `for job in self.datastore.jobs` of _generate_experience_section
ExperienceBlocks(jobs, carstories, jobdescriptions) ==
    [k \in 1..Len(jobs) |-> JobBlock(jobs[k], carstories, jobdescriptions)]

\* the section with get_experience given no descriptions
ExperienceSection_NoDescriptions(provider, jobs, prompt_len, o1, o2, o3) ==
    LET jobdescriptions == get_job_summaries(provider, prompt_len, o1)
        carstories == get_experience(provider, List(<<>>), prompt_len, o2, o3)
    IN  [events |-> jobdescriptions.events \o carstories.events,
         tracks |-> jobdescriptions.tracks \o carstories.tracks,
         blocks |-> ExperienceBlocks(jobs, carstories.value.items,
                                     jobdescriptions.value.items)]

\* the two provider calls of _generate_experience_section, and its blocks
ExperienceSection(provider, jobs, prompt_len, o1, o2, o3) ==
    LET jobdescriptions == get_job_summaries(provider, prompt_len, o1)
        carstories == get_experience(provider, jobdescriptions.value, prompt_len, o2, o3)
    IN  [events |-> jobdescriptions.events \o carstories.events,
         tracks |-> jobdescriptions.tracks \o carstories.tracks,
         blocks |-> ExperienceBlocks(jobs, carstories.value.items,
                                     jobdescriptions.value.items)]

-----------------------------------------------------------------------------
(* A cost tracker from its construction on *)

\* most operations on one tracker
MaxOps == 3

\* an Optional[Dict]: None, or a dict
Nothing == [some |-> FALSE]
Some(v) == [some |-> TRUE, val |-> v]

\* `not v` of an Optional[Dict]: None and the empty dict are false
Falsy(o) == ~o.some \/ o.val = <<>>

\* pricing.json: missing, not readable as JSON, or holding a value
NoFile == [kind |-> "absent"]
Unreadable == [kind |-> "unreadable"]
Json(t) == [kind |-> "json", data |-> t]

\* the remote source: the request or its processing raises, or it gives rows
\* (each with one price, taken for input and output alike)
FetchFails == [kind |-> "fails"]
Csv(rows) == [kind |-> "csv", data |-> rows]

\* the providers _fetch_external_pricing files the rows under
RemoteProviders == {"anthropic", "openai", "google", "mistral", "meta", "other"}

\* pricing_data of _fetch_external_pricing: every provider, the rows under theirs
RemoteTable(rows) ==
    [p \in RemoteProviders |-> IF p = "anthropic" THEN rows ELSE <<>>]

\* CostTracker._fetch_external_pricing: None on any exception
fetch_external_pricing(r) ==
    IF r.kind = "csv" THEN Some(RemoteTable(r.data)) ELSE Nothing

\* the remote source asked also when pricing.json was read
load_custom_pricing_FetchAlways(file, r) ==
    LET external_pricing == fetch_external_pricing(r)
    IN  IF file.kind = "json" THEN [value |-> Some(file.data), fetches |-> 1]
        ELSE IF ~Falsy(external_pricing) THEN [value |-> external_pricing, fetches |-> 1]
        ELSE [value |-> Nothing, fetches |-> 1]

\* CostTracker._load_custom_pricing: the value returned, the fetches made
load_custom_pricing(file, r) ==
    LET external_pricing == fetch_external_pricing(r)
    IN  IF file.kind = "json" THEN [value |-> Some(file.data), fetches |-> 0]
        ELSE IF ~Falsy(external_pricing) THEN [value |-> external_pricing, fetches |-> 1]
        ELSE [value |-> Nothing, fetches |-> 1]

\* the values pricing.json holds: {}, and two tables
FileTables ==
    {<<>>,
     [p \in {"anthropic"} |-> <<[model |-> <<"a">>, input |-> 25, output |-> 125]>>],
     [p \in {"anthropic"} |-> <<>>]}

PricingFiles == {NoFile, Unreadable} \cup {Json(t) : t \in FileTables}

RemoteSources ==
    {FetchFails, Csv(<<>>), Csv(<<[model |-> <<"a">>, input |-> 300, output |-> 300]>>)}

\* before CostTracker(): the pricing sources as they are
TrackerInit ==
    /\ pricing_json \in PricingFiles
    /\ remote \in RemoteSources
    /\ fetched = 0
    /\ logs = <<>> /\ printed = <<>>
    /\ CostParked
    /\ pc = "start"

\* CostTracker.__init__
NewCostTracker ==
    /\ pc = "start"
    /\ LET custom == load_custom_pricing(pricing_json, remote)
       IN  /\ pricing' = IF Falsy(custom.value) THEN DefaultPricing ELSE custom.value.val
           /\ fetched' = fetched + custom.fetches
    /\ calls' = <<>>
    /\ total_tokens' = [input |-> 0, output |-> 0]
    /\ total_cost' = 0
    /\ pc' = "ready"
    /\ UNCHANGED <<pricing_json, remote, logs, printed>>

\* the operations made on the tracker so far
Ops == Len(calls) + Len(logs) + Len(printed)

\* tracker.track_call(...)
TrackerTrackCall ==
    /\ pc = "ready" /\ Ops < MaxOps
    /\ \E tokens \in TokenPairs :
           TrackCall("anthropic", <<"a">>, tokens.input, tokens.output, "get_summary")
    /\ UNCHANGED <<pc, srcVars>>

\* tracker.reset()
TrackerReset ==
    /\ pc = "ready" /\ calls # <<>>
    /\ Reset
    /\ UNCHANGED <<pc, srcVars>>

\* CostTracker.get_summary
CostSummary ==
    [total_calls |-> Len(calls), total_tokens |-> total_tokens,
     total_cost_usd |-> total_cost]

\* CostTracker.save_log: no file when there is no call
SaveLog ==
    /\ pc = "ready" /\ Ops < MaxOps
    /\ logs' = IF calls = <<>> THEN logs
               ELSE Append(logs, [name |-> "cost_log_<project_name>_<timestamp>.json",
                                  summary |-> CostSummary, calls |-> calls])
    /\ UNCHANGED <<pc, costVars, pricing_json, remote, fetched, printed>>

\* CostTracker.print_summary
PrintSummary ==
    /\ pc = "ready" /\ Ops < MaxOps
    /\ printed' = Append(printed,
                      IF calls = <<>> THEN [line |-> "No API calls recorded"]
                      ELSE [line |-> "=== Cost Summary ===", summary |-> CostSummary])
    /\ UNCHANGED <<pc, costVars, pricing_json, remote, fetched, logs>>

-----------------------------------------------------------------------------
(* pycv/datastore.py *)

\* most records of one data file
MaxRecords == 2

\* the files load_data reads, in the order it reads them
FileOrder == <<"summary.yaml", "education.yaml", "jobs.yaml", "skills.yaml",
               "languages.yaml", "carstories.yaml", "headers.yaml", "statements.yaml">>

FileNames == {FileOrder[i] : i \in 1..Len(FileOrder)}

\* the collection files: their records are validated and sorted
CollectionFiles == FileNames \ {"summary.yaml", "headers.yaml"}

\* the attribute of the store a file is loaded into
AttrOf(file) ==
    CASE file = "summary.yaml" -> "summary"
      [] file = "education.yaml" -> "education"
      [] file = "jobs.yaml" -> "jobs"
      [] file = "skills.yaml" -> "skills"
      [] file = "languages.yaml" -> "languages"
      [] file = "carstories.yaml" -> "carstories"
      [] file = "headers.yaml" -> "headers"
      [] file = "statements.yaml" -> "statements"

\* the fields without a default of the class a file's records are built with
RequiredFields(file) ==
    CASE file = "summary.yaml" -> {"summary"}
      [] file = "education.yaml" -> {"edu", "title", "organization", "location", "date"}
      [] file = "jobs.yaml" -> {"job", "position", "organization", "location", "date"}
      [] file = "skills.yaml" -> {"category", "items"}
      [] file = "languages.yaml" -> {"language", "level"}
      [] file = "carstories.yaml" -> {"job", "challenge", "action", "result", "skills"}
      [] file = "headers.yaml" ->
             {"photo", "name", "position", "address", "mobile", "email", "linkedin"}
      [] file = "statements.yaml" -> {"job", "statement"}

\* every field of that class
AllFields(file) ==
    IF file = "education.yaml" THEN RequiredFields(file) \cup {"desc"}
    ELSE RequiredFields(file)

\* the field load_data sorts a collection by
KeyField(file) ==
    CASE file = "education.yaml" -> "edu"
      [] file \in {"jobs.yaml", "carstories.yaml", "statements.yaml"} -> "job"
      [] file = "skills.yaml" -> "category"
      [] file = "languages.yaml" -> "language"

\* the sort key is a str (a sequence of code points), else an int
StrKey(file) == file \in {"skills.yaml", "languages.yaml"}

\* A mapping of a file: the fields it has, those of them whose value is of
\* the wrong type, the value of its key field, and the rest of its values
\* (id tells two mappings of one key apart).
Entry(fields, wrong, key, id) == [fields |-> fields, wrong |-> wrong, key |-> key, id |-> id]

Absent == [kind |-> "absent"]

\* yaml.safe_load raises
Unparseable == [kind |-> "unparseable"]

\* yaml.safe_load returns None
EmptyFile == [kind |-> "empty"]

\* yaml.safe_load returns data
Yaml(data) == [kind |-> "yaml", data |-> data]

\* Class(**entry) of a pydantic class: every required field is there and
\* every field of the class that is there has a value of its type
Validates(file, e) ==
    /\ RequiredFields(file) \subseteq e.fields
    /\ e.wrong \cap AllFields(file) = {}

\* the object Class(**entry) builds
Record(file, e) == [key |-> e.key, id |-> e.id]

RECURSIVE LexLess(_, _)
\* a < b for two str
LexLess(a, b) ==
    IF b = <<>> THEN FALSE
    ELSE IF a = <<>> THEN TRUE
    ELSE IF a[1] # b[1] THEN a[1] < b[1]
    ELSE LexLess(Tail(a), Tail(b))

\* a < b for two values of a file's key field
KeyLess(file, a, b) == IF StrKey(file) THEN LexLess(a, b) ELSE a < b

RECURSIVE InsertSorted(_, _, _)
\* x put behind every record of s whose key is not greater than x's
InsertSorted(file, s, x) ==
    IF s = <<>> THEN <<x>>
    ELSE IF KeyLess(file, x.key, Head(s).key) THEN <<x>> \o s
    ELSE <<Head(s)>> \o InsertSorted(file, Tail(s), x)

\* the records as they stand in the file
sorted_Unsorted(file, s) == s

RECURSIVE sorted(_, _)
\* sorted(records, key=lambda x: x.<key field>): ascending and stable
sorted(file, s) ==
    IF s = <<>> THEN <<>>
    ELSE InsertSorted(file, sorted(file, SubSeq(s, 1, Len(s) - 1)), s[Len(s)])

\* YamlStore.__init__: the attributes it sets (datadir apart)
YamlStore ==
    [summary |-> None, education |-> <<>>, jobs |-> <<>>, skills |-> <<>>,
     carstories |-> <<>>, personaldata |-> <<>>, languages |-> <<>>,
     statements |-> <<>>]

\* no store is constructed yet
NoStore == [constructed |-> FALSE]

\* self.<attr> = value
SetAttr(st, attr, value) ==
    [a \in DOMAIN st \cup {attr} |-> IF a = attr THEN value ELSE st[a]]

LoadOk(st) == [store |-> st, exc |-> "none"]

LoadRaises(st, e) == [store |-> st, exc |-> e]

\* the block extending the collection the store holds already
LoadFile_Accumulating(st, file, c) ==
    IF c.kind = "absent" THEN LoadOk(st)
    ELSE IF c.kind = "unparseable" THEN LoadRaises(st, "YAMLError")
    ELSE IF file = "summary.yaml"
    THEN IF c.kind = "empty" THEN LoadRaises(st, "AttributeError")
         ELSE IF "summary" \in c.data.wrong THEN LoadRaises(st, "ValidationError")
         ELSE LoadOk(SetAttr(st, "summary",
                  Summary(IF "summary" \in c.data.fields THEN c.data.id ELSE "")))
    ELSE IF c.kind = "empty" THEN LoadRaises(st, "TypeError")
    ELSE IF file = "headers.yaml"
    THEN IF c.data = <<>> THEN LoadRaises(st, "IndexError")
         ELSE LoadOk(SetAttr(st, "headers", c.data[1]))
    ELSE IF \E i \in 1..Len(c.data) : ~Validates(file, c.data[i])
    THEN LoadRaises(st, "ValidationError")
    ELSE LoadOk(SetAttr(st, AttrOf(file),
             st[AttrOf(file)] \o sorted(file, [i \in 1..Len(c.data) |-> Record(file, c.data[i])])))

\* one `if (data_path / file).exists():` block of load_data
LoadFile(st, file, c) ==
    IF c.kind = "absent" THEN LoadOk(st)
    ELSE IF c.kind = "unparseable" THEN LoadRaises(st, "YAMLError")
    ELSE IF file = "summary.yaml"
    THEN IF c.kind = "empty" THEN LoadRaises(st, "AttributeError")
         ELSE IF "summary" \in c.data.wrong THEN LoadRaises(st, "ValidationError")
         ELSE LoadOk(SetAttr(st, "summary",
                  Summary(IF "summary" \in c.data.fields THEN c.data.id ELSE "")))
    ELSE IF c.kind = "empty" THEN LoadRaises(st, "TypeError")
    ELSE IF file = "headers.yaml"
    THEN IF c.data = <<>> THEN LoadRaises(st, "IndexError")
         ELSE LoadOk(SetAttr(st, "headers", c.data[1]))
    ELSE IF \E i \in 1..Len(c.data) : ~Validates(file, c.data[i])
    THEN LoadRaises(st, "ValidationError")
    ELSE LoadOk(SetAttr(st, AttrOf(file),
             sorted(file, [i \in 1..Len(c.data) |-> Record(file, c.data[i])])))

RECURSIVE LoadFrom(_, _, _)
\* load_data from its i-th file on: the first exception ends it
LoadFrom(st, dir, i) ==
    IF i > Len(FileOrder) THEN LoadOk(st)
    ELSE LET r == LoadFile(st, FileOrder[i], dir[FileOrder[i]])
         IN  IF r.exc # "none" THEN r ELSE LoadFrom(r.store, dir, i + 1)

\* YamlStore.load_data on the files of a directory
load_data(st, dir) == LoadFrom(st, dir, 1)

-----------------------------------------------------------------------------
(* Data directories *)

SeqsUpTo(S, n) == UNION {[1..m -> S] : m \in 0..n}

IntKeys == {1, 2}

\* "B", "a" and "ab" as code points
StrKeys == {<<66>>, <<97>>, <<97, 98>>}

KeysOf(file) == IF StrKey(file) THEN StrKeys ELSE IntKeys

Ids == {"a", "b"}

\* the well-formed mappings of a collection file
GoodEntries(file) ==
    {Entry(RequiredFields(file), {}, k, i) : k \in KeysOf(file), i \in Ids}

\* a field the class of the file requires
AField(file) ==
    IF file = "summary.yaml" THEN "summary"
    ELSE IF file = "headers.yaml" THEN "name"
    ELSE KeyField(file)

\* a mapping without that field, and one with a value of the wrong type in it
LacksField(file) == Entry(RequiredFields(file) \ {AField(file)}, {}, 1, "a")

WrongType(file) == Entry(RequiredFields(file), {AField(file)}, 1, "a")

GoodSummary == Entry({"summary"}, {}, 0, "s")

GoodHeaders == Entry(RequiredFields("headers.yaml"), {}, 0, "h")

\* a well-formed content of each file: the collections out of order
Default(file) ==
    IF file = "summary.yaml" THEN Yaml(GoodSummary)
    ELSE IF file = "headers.yaml" THEN Yaml(<<GoodHeaders>>)
    ELSE IF StrKey(file)
    THEN Yaml(<<Entry(RequiredFields(file), {}, <<97>>, "a"),
                Entry(RequiredFields(file), {}, <<66>>, "b")>>)
    ELSE Yaml(<<Entry(RequiredFields(file), {}, 2, "a"),
                Entry(RequiredFields(file), {}, 1, "b")>>)

\* the well-formed contents of a file
ValidContents(file) ==
    IF file = "summary.yaml" THEN {Yaml(GoodSummary)}
    ELSE IF file = "headers.yaml"
    THEN {Yaml(<<GoodHeaders>>), Yaml(<<GoodHeaders, LacksField(file)>>)}
    ELSE {Yaml(l) : l \in SeqsUpTo(GoodEntries(file), MaxRecords)}

\* the malformed contents of a file: unparseable, empty, a record that lacks
\* a required field, a record with a value of the wrong type
Malformed(file) ==
    {Unparseable, EmptyFile} \cup
    (IF file = "summary.yaml" THEN {Yaml(LacksField(file)), Yaml(WrongType(file))}
     ELSE {Yaml(<<LacksField(file)>>), Yaml(<<WrongType(file)>>)})

With(dir, file, c) == [dir EXCEPT ![file] = c]

\* the directories with a subset of the files, each of its default content
SubsetDirs ==
    {[f \in FileNames |-> IF f \in present THEN Default(f) ELSE Absent] :
         present \in SUBSET FileNames}

\* the directories with one file of any well-formed content, the other
\* files all absent or all present
LoadDirs ==
    SubsetDirs \cup
    UNION {{With(d, f, c) : d \in {[g \in FileNames |-> Absent],
                                   [g \in FileNames |-> Default(g)]},
                            c \in ValidContents(f)} : f \in FileNames}

\* jobs.yaml with one record for each given id
JobEntries(ids) ==
    [k \in 1..Len(ids) |-> Entry(RequiredFields("jobs.yaml"), {}, ids[k], "a")]

\* the directory of a run: its jobs, with or without headers and education
RunDir(ids, headers, education) ==
    [f \in FileNames |->
        IF f = "jobs.yaml" THEN Yaml(JobEntries(ids))
        ELSE IF f = "headers.yaml" /\ headers THEN Default(f)
        ELSE IF f = "education.yaml" /\ education THEN Default(f)
        ELSE Absent]

RunDirs ==
    {RunDir(ids, h, e) : ids \in {<<>>, <<1>>, <<2, 1>>}, h \in BOOLEAN, e \in BOOLEAN}
    \cup UNION {{With(RunDir(<<2, 1>>, TRUE, FALSE), f, c) : c \in Malformed(f)} :
                    f \in FileNames}

-----------------------------------------------------------------------------
(* A store loaded from every bounded data directory *)

\* most calls of load_data on one data directory
MaxLoads == 2

\* YamlStore(datadir) on a directory of well-formed files
LoadInit ==
    /\ datadir \in LoadDirs
    /\ store = YamlStore
    /\ loaded = <<>>

\* store.load_data()
LoadData ==
    /\ Len(loaded) < MaxLoads
    /\ LET r == load_data(store, datadir)
       IN  store' = r.store /\ loaded' = Append(loaded, r)
    /\ UNCHANGED datadir

\* YamlStore(datadir) once more: another store on the same directory
NewStore ==
    /\ loaded # <<>> /\ Len(loaded) < MaxLoads
    /\ store' = YamlStore
    /\ UNCHANGED <<datadir, loaded>>

-----------------------------------------------------------------------------
(* The environment of the provider *)

\* the provider selected and whether each variable is set
Envs ==
    [LLM_PROVIDER : {"anthropic", "openai", "custom", "other"},
     ANTHROPIC_API_KEY : BOOLEAN, OPENAI_API_KEY : BOOLEAN, LLM_BASE_URL : BOOLEAN]

\* the exception Ai.__init__ raises in an environment, "none" when it
\* constructs the provider
AiInitError(e) ==
    IF e.LLM_PROVIDER = "anthropic"
    THEN IF e.ANTHROPIC_API_KEY THEN "none" ELSE "ValueError"
    ELSE IF e.LLM_PROVIDER = "openai"
    THEN IF e.OPENAI_API_KEY THEN "none" ELSE "ValueError"
    ELSE IF e.LLM_PROVIDER = "custom"
    THEN IF e.LLM_BASE_URL THEN "none" ELSE "ValueError"
    ELSE "ValueError"

\* the environments of a run: a backend, with or without what it needs
RunEnvs ==
    {[LLM_PROVIDER |-> p, ANTHROPIC_API_KEY |-> (p = "anthropic" /\ c),
      OPENAI_API_KEY |-> (p = "openai" /\ c), LLM_BASE_URL |-> (p = "custom" /\ c)] :
         p \in {"anthropic", "openai", "custom"}, c \in BOOLEAN}

\* the job ids of the loaded Job collection, in its order
StoreJobs == [k \in 1..Len(store.jobs) |-> store.jobs[k].key]

\* the job posting inputs: a URL, and the path of a file
JobLinks == {"https://example.org/job", "posting.txt"}

-----------------------------------------------------------------------------
(* main.py and pycv/pycv.py: a run *)

\* most jobs of the data store
MaxJobs == 2

JobIds == {1, 2}

\* Job records sorted by job, as load_data leaves them; a job is its id
SortedJobs ==
    {j \in UNION {[1..n -> JobIds] : n \in 0..MaxJobs} :
        \A a, b \in 1..Len(j) : a <= b => j[a] <= j[b]}

NoLatex == [summary |-> <<>>, blocks |-> <<>>]

\* the environment and the data directory of a run
RunInit ==
    /\ env \in RunEnvs /\ env.LLM_PROVIDER = provider_type
    /\ datadir \in RunDirs
    /\ joblink \in JobLinks
    /\ compile \in BOOLEAN /\ typeset = <<>>
    /\ store = NoStore /\ loaded = <<>>
    /\ posted = <<>>
    /\ pc = "start" /\ via = "none" /\ exc = "none"
    /\ latex = NoLatex
    /\ files = {}

Raise(e) == pc' = "raised" /\ exc' = e

\* main(): PyCv is constructed with joblink, projectname, datadir and
\* track_costs, which PyCv.__init__(self, joblink, projectname) does not take:
\* save_latex and, with compile, the one xelatex run on each of the two files
\* that follow in main are not reached
Main ==
    /\ pc = "start"
    /\ via' = "main"
    /\ Raise("TypeError")
    /\ UNCHANGED <<env, store, latex, files, costVars, aiVars, dataVars, jobVars>>

\* PyCv(joblink, projectname): a YamlStore is made and loaded, which may
\* raise; the joblink is kept as it is given; then Ai() raises when what the
\* selected backend needs is not set
Construct ==
    /\ pc = "start"
    /\ via' = "PyCv"
    /\ LET r == load_data(YamlStore, datadir)
       IN  /\ store' = r.store
           /\ loaded' = Append(loaded, r)
           /\ IF r.exc # "none" THEN Raise(r.exc)
              ELSE IF AiInitError(env) # "none" THEN Raise(AiInitError(env))
              ELSE pc' = "ready" /\ exc' = exc
    /\ UNCHANGED <<env, latex, files, costVars, aiVars, datadir, jobVars>>

\* Ai(): provider_type is read from the environment, then the provider of
\* the selected backend is made, or ValueError raised
ConstructAi ==
    /\ pc = "start"
    /\ via' = "Ai"
    /\ provider_type' = env.LLM_PROVIDER
    /\ IF AiInitError(env) # "none" THEN Raise(AiInitError(env))
       ELSE pc' = "ready" /\ exc' = exc
    /\ UNCHANGED <<env, store, latex, files, costVars, ailog, dataVars, jobVars>>

\* StubAi(): the class has no __init__ and reads nothing
ConstructStubAi ==
    /\ pc = "start"
    /\ via' = "StubAi"
    /\ pc' = "ready" /\ exc' = exc
    /\ UNCHANGED <<env, store, latex, files, costVars, aiVars, dataVars, jobVars>>

\* PyCv(joblink, projectname, <a request for the stub>): __init__ takes
\* joblink and projectname only and makes an Ai() itself
ConstructWithStub ==
    /\ pc = "start"
    /\ via' = "PyCv(stub)"
    /\ Raise("TypeError")
    /\ UNCHANGED <<env, store, latex, files, costVars, aiVars, dataVars, jobVars>>

\* PyCv.generate_latex: the template is loaded (it may be missing), then
\* render's first argument calls self.generate_header_information, which
\* PyCv does not define
GenerateLatex ==
    /\ pc = "ready"
    /\ via' = "generate_latex"
    /\ \E template \in BOOLEAN :
           Raise(IF template THEN "AttributeError" ELSE "TemplateNotFound")
    /\ UNCHANGED <<env, store, latex, files, costVars, aiVars, dataVars, jobVars>>

\* PyCv.save_latex: <projectname>.tex is opened for writing, then
\* generate_latex raises before anything is written to it
SaveLatex ==
    /\ pc = "ready"
    /\ via' = "save_latex"
    /\ files' = files \cup {"<projectname>.tex"}
    /\ \E template \in BOOLEAN :
           Raise(IF template THEN "AttributeError" ELSE "TemplateNotFound")
    /\ UNCHANGED <<env, store, latex, costVars, aiVars, dataVars, jobVars>>

\* PyCv.oldgenerate_latex up to its summary section: the header information
\* reads datastore.headers, which load_data sets only from headers.yaml, and
\* makes a tag of each of its values; then the footer reads headers['name']
HeaderInformation ==
    /\ pc = "ready"
    /\ via' = "oldgenerate_latex"
    /\ IF "headers" \notin DOMAIN store THEN Raise("AttributeError")
       ELSE IF store.headers.wrong # {} THEN Raise("TypeError")
       ELSE IF "name" \notin store.headers.fields THEN Raise("KeyError")
       ELSE pc' = "summary" /\ exc' = exc
    /\ UNCHANGED <<env, store, latex, files, costVars, aiVars, dataVars, jobVars>>

\* PyCv._generate_summary_section
SummarySection ==
    /\ pc = "summary"
    /\ \E o \in Outcomes(provider_type, SummaryValues, Usages), n \in PromptLens :
           LET aisummary == get_summary(provider_type, n, o)
           IN  /\ Performed(aisummary)
               /\ IF aisummary.status = "raised"
                  THEN Raise(aisummary.value.type) /\ latex' = latex
                  ELSE /\ pc' = "experience" /\ exc' = exc
                       /\ latex' = [latex EXCEPT !.summary = <<aisummary.value.summary>>]
    /\ UNCHANGED <<env, store, via, files, dataVars>>

\* the section taking each job off the store's list as it renders it
GenerateExperienceSection_ConsumesJobs(from, to, o1s, o2s, o3s) ==
    /\ pc = from
    /\ \E n \in PromptLens, o1 \in o1s, o2 \in o2s, o3 \in o3s :
           LET section == ExperienceSection(provider_type, StoreJobs, n, o1, o2, o3)
           IN  /\ Performed(section)
               /\ latex' = [latex EXCEPT !.blocks = section.blocks]
    /\ pc' = to
    /\ store' = [store EXCEPT !.jobs = <<>>]
    /\ UNCHANGED <<env, via, exc, files, dataVars>>

\* PyCv._generate_experience_section, from one place of the run to the next,
\* with the backend's answers to its three requests among o1s, o2s and o3s
GenerateExperienceSection(from, to, o1s, o2s, o3s) ==
    /\ pc = from
    /\ \E n \in PromptLens, o1 \in o1s, o2 \in o2s, o3 \in o3s :
           LET section == ExperienceSection(provider_type, StoreJobs, n, o1, o2, o3)
           IN  /\ Performed(section)
               /\ latex' = [latex EXCEPT !.blocks = section.blocks]
    /\ pc' = to
    /\ UNCHANGED <<env, store, via, exc, files, dataVars>>

\* the experience section of oldgenerate_latex
ExperienceSectionStep ==
    GenerateExperienceSection("experience", "education",
        Outcomes(provider_type, ListValues(RunDescriptions), Usages),
        Outcomes(provider_type, ListValues(RunStories), Usages),
        Outcomes(provider_type, ListValues(RunItems), Usages))

\* PyCv._generate_education_section reads edu.timerange, which Education does
\* not have; then the skills and the language sections, and the document
RemainingSections ==
    /\ pc = "education"
    /\ IF store.education # <<>> THEN Raise("AttributeError") ELSE pc' = "done" /\ exc' = exc
    /\ UNCHANGED <<env, store, via, latex, files, costVars, aiVars, dataVars, jobVars>>

-----------------------------------------------------------------------------
(* The experience section on every bounded answer of the backend *)

\* most generated records (descriptions and items together) of one section
MaxGen == 3

GenJobIds == {1, 2, 3}

GroupTexts == {<<"a">>, <<"_">>}

GroupDescriptions == {JobDescription(j, t) : j \in GenJobIds, t \in GroupTexts}

GroupItems == {Cvitem(j, t) : j \in GenJobIds, t \in GroupTexts}

Answer(v) == Outcome("response", v, [input |-> 1000, output |-> 500], <<>>)

\* a PyCv object of the anthropic provider over every sorted Job collection
GroupInit ==
    /\ provider_type = "anthropic"
    /\ ailog = <<>>
    /\ pricing = DefaultPricing
    /\ calls = <<>>
    /\ total_tokens = [input |-> 0, output |-> 0]
    /\ total_cost = 0
    /\ env = [LLM_PROVIDER |-> "anthropic", ANTHROPIC_API_KEY |-> TRUE,
              OPENAI_API_KEY |-> FALSE, LLM_BASE_URL |-> FALSE]
    /\ datadir \in {RunDir(ids, TRUE, FALSE) : ids \in SortedJobs}
    /\ store = load_data(YamlStore, datadir).store
    /\ loaded = <<load_data(YamlStore, datadir)>>
    /\ JobParked
    /\ pc = "ready" /\ via = "PyCv" /\ exc = "none"
    /\ latex = NoLatex
    /\ files = {}

\* _generate_experience_section called on the object, the backend answering
\* with every list of descriptions and of items
ExperienceSectionAlone ==
    /\ pc = "ready"
    /\ \E d \in SeqsUpTo(GroupDescriptions, MaxGen) :
           \E i \in SeqsUpTo(GroupItems, MaxGen - Len(d)) :
               GenerateExperienceSection("ready", "done",
                   {Answer(List(d))}, {Answer(List(<<CarStory(1, <<"a">>)>>))},
                   {Answer(List(i))})

-----------------------------------------------------------------------------
(* Claims about sanitize_text_for_latex *)

\* the escape sequence the replacements list gives one character
EscapeOf(c) ==
    IF \E i \in 1..Len(replacements) : replacements[i][1] = c
    THEN replacements[CHOOSE i \in 1..Len(replacements) : replacements[i][1] = c][2]
    ELSE <<c>>

\* each character's own escape sequence, concatenated
CharwiseEscape(s) == Concat([i \in 1..Len(s) |-> EscapeOf(s[i])])

\* C6: for every input string sanitize_text_for_latex returns the
\* concatenation, character by character, of each reserved character's escape
\* sequence and each other character unchanged (nothing is escaped twice).
C6_SanitizeIsCharwise ==
    sanitized.fn = "sanitize_text_for_latex" => sanitized.out = CharwiseEscape(text)

-----------------------------------------------------------------------------
(* Claims about CostTracker.track_call *)

\* a call record's cost is computed at the prices of entry e
CostBy(c, e) ==
    /\ c.cost.input = c.tokens.input * e.input
    /\ c.cost.output = c.tokens.output * e.output
    /\ c.cost.total = c.cost.input + c.cost.output

\* the indices of the entries of t whose name contains m or is contained in m
SimilarIdx(t, m) ==
    {i \in 1..Len(t) : IsSubstring(t[i].model, m) \/ IsSubstring(m, t[i].model)}

ExactIdx(c) ==
    IF c.provider \in DOMAIN pricing
    THEN {i \in 1..Len(pricing[c.provider]) : pricing[c.provider][i].model = c.model}
    ELSE {}

ProviderSimilar(c) ==
    IF c.provider \in DOMAIN pricing THEN SimilarIdx(pricing[c.provider], c.model) ELSE {}

OtherSimilar(c) ==
    IF "other" \in DOMAIN pricing THEN SimilarIdx(pricing["other"], c.model) ELSE {}

Least(S) == CHOOSE x \in S : \A y \in S : x <= y

\* C9: when the price table has an exact (provider, model) entry with prices
\* p_in and p_out per million tokens, the record of track_call has
\* cost.input = input_tokens/1e6*p_in, cost.output = output_tokens/1e6*p_out
\* and cost.total their sum; 1000 and 500 tokens at 3.00 and 15.00 give 0.0105.
C9_ExactPriceCost ==
    \A k \in 1..Len(calls) : \A i \in ExactIdx(calls[k]) :
        LET c == calls[k]
            e == pricing[c.provider][i]
        IN  /\ CostBy(c, e)
            /\ (c.tokens.input = 1000 /\ c.tokens.output = 500
                    /\ e.input = 300 /\ e.output = 1500) => c.cost.total = 1050000

\* a call of 1000 and 500 tokens priced by an exact entry of 3.00 and 15.00
C9_Witness ==
    \E k \in 1..Len(calls) : \E i \in ExactIdx(calls[k]) :
        /\ calls[k].tokens = [input |-> 1000, output |-> 500, total |-> 1500]
        /\ pricing[calls[k].provider][i].input = 300
        /\ pricing[calls[k].provider][i].output = 1500
        /\ calls[k].cost.total = 1050000
        /\ total_cost = 1050000

\* C10: track_call prices a call by the exact (provider, model) entry; else by
\* the first entry of that provider whose name contains or is contained in the
\* model name; else by the first such entry of the 'other' table; else at the
\* fallback rate of 5.0 and 15.0. A later source is used only when every
\* earlier one has no match.
C10_PriceOrder ==
    \A k \in 1..Len(calls) :
        LET c == calls[k]
        IN  /\ ExactIdx(c) # {} => \A i \in ExactIdx(c) : CostBy(c, pricing[c.provider][i])
            /\ (ExactIdx(c) = {} /\ ProviderSimilar(c) # {})
                   => CostBy(c, pricing[c.provider][Least(ProviderSimilar(c))])
            /\ (ExactIdx(c) = {} /\ ProviderSimilar(c) = {} /\ OtherSimilar(c) # {})
                   => CostBy(c, pricing["other"][Least(OtherSimilar(c))])
            /\ (ExactIdx(c) = {} /\ ProviderSimilar(c) = {} /\ OtherSimilar(c) = {})
                   => CostBy(c, [input |-> 500, output |-> 1500])

\* the provider's table has no match and the 'other' table two, of different
\* prices: the call is priced by the first of them
C10_Witness ==
    \E k \in 1..Len(calls) :
        LET c == calls[k]
        IN  /\ c.provider = "anthropic"
            /\ "anthropic" \in DOMAIN pricing /\ pricing["anthropic"] # <<>>
            /\ ExactIdx(c) = {} /\ ProviderSimilar(c) = {}
            /\ OtherSimilar(c) = {1, 2}
            /\ pricing["other"][1].input # pricing["other"][2].input
            /\ c.tokens.input = 1000
            /\ c.cost.input = 1000 * pricing["other"][1].input

-----------------------------------------------------------------------------
(* Claims about the experience section *)

\* the value an operation returned last
LastReturned(op) ==
    LET last == CHOOSE i \in 1..Len(ailog) :
                    /\ ailog[i].ev = "returned" /\ ailog[i].op = op
                    /\ \A j \in (i + 1)..Len(ailog) :
                           ~(ailog[j].ev = "returned" /\ ailog[j].op = op)
    IN  ailog[last].val

HasReturned(op) == \E i \in 1..Len(ailog) : ailog[i].ev = "returned" /\ ailog[i].op = op

\* the section has been generated: D and I are the lists it got from the provider
SectionGenerated == HasReturned("get_experience") /\ via \in {"PyCv", "oldgenerate_latex"}

GotDescriptions == LastReturned("get_job_summaries").items

GotItems == LastReturned("get_experience").items

\* the records of a list that are of a job, in the list's order
Matching(records, job) ==
    LET OfJob(r) == r.job = job IN SelectSeq(records, OfJob)

\* the items of a job as a block carries them: each as an \item of its text,
\* escaped by _latex_escape
CarriedItems(job) ==
    [i \in 1..Len(Matching(GotItems, job)) |-> latex_escape(Matching(GotItems, job)[i].item)]

C8_EmptyBlocksAndUnmatchedRecords ==
    SectionGenerated =>
        /\ exc = "none"
        /\ Len(latex.blocks) = Len(StoreJobs)
        /\ \A k \in 1..Len(StoreJobs) :
               LET job == StoreJobs[k]
                   descs == {i \in 1..Len(GotDescriptions) : GotDescriptions[i].job = job}
                   items == {i \in 1..Len(GotItems) : GotItems[i].job = job}
               IN  /\ latex.blocks[k].job = job
                   /\ Len(latex.blocks[k].stories) = Cardinality(items)
                   /\ Len(latex.blocks[k].jobentry) <= Cardinality(descs)
                   /\ (descs = {} /\ items = {}) =>
                          /\ latex.blocks[k].jobentry = <<>>
                          /\ latex.blocks[k].stories = <<>>
                          /\ latex.blocks[k].content = "{}"

\* two jobs, the second without any record, while a description and an item
\* name job 3, which is not loaded
C8_Witness ==
    /\ SectionGenerated /\ pc = "done" /\ exc = "none"
    /\ StoreJobs = <<1, 2>>
    /\ \E i \in 1..Len(GotItems) : GotItems[i].job = 3
    /\ \E i \in 1..Len(GotDescriptions) : GotDescriptions[i].job = 3
    /\ \E i \in 1..Len(GotItems) : GotItems[i].job = 1
    /\ Matching(GotItems, 2) = <<>> /\ Matching(GotDescriptions, 2) = <<>>
    /\ latex.blocks[2] = [job |-> 2, jobentry |-> <<>>, stories |-> <<>>, content |-> "{}"]
    /\ latex.blocks[1].content = "{...}"

-----------------------------------------------------------------------------
(* Claims about the provider and the run *)

\* the operation called at i ended at j
EndsAt(i, j) ==
    /\ i < j
    /\ ailog[i].ev = "call"
    /\ ailog[j].ev \in {"returned", "raised"}
    /\ \A k \in (i + 1)..(j - 1) : ailog[k].ev = "request"

\* every request of the operation called at i and ended at j raised
EveryRequestRaised(i, j) ==
    /\ j > i + 1
    /\ \A k \in (i + 1)..(j - 1) : ailog[k].val.type = "raise"

\* the value is of the shape the operation declares
OfDeclaredShape(op, v) ==
    IF op = "get_summary" THEN v.type = "Summary"
    ELSE IF op = "get_letterinfo" THEN v.type = "Letterinfo"
    ELSE v.type = "list"

\* C2: if every backend request raises, each of get_summary,
\* get_job_summaries, get_experience and get_letterinfo still returns a
\* non-null result of its declared shape and does not raise, for each of the
\* anthropic, openai and custom backends.
C2_FallbackOfEveryOperation ==
    \A i, j \in 1..Len(ailog) :
        (EndsAt(i, j) /\ EveryRequestRaised(i, j)) =>
            /\ ailog[j].ev = "returned"
            /\ OfDeclaredShape(ailog[j].op, ailog[j].val)

\* C3: in every run get_experience is invoked only after get_job_summaries
\* has returned in that run, and the descriptions it is given are the value
\* that get_job_summaries returned.
C3_DescriptionsAreTheJobSummaries ==
    \A i \in 1..Len(ailog) :
        (ailog[i].ev = "call" /\ ailog[i].op = "get_experience") =>
            \E j \in 1..(i - 1) :
                /\ ailog[j].ev = "returned" /\ ailog[j].op = "get_job_summaries"
                /\ \A k \in (j + 1)..(i - 1) :
                       ~(ailog[k].ev = "returned" /\ ailog[k].op = "get_job_summaries")
                /\ ailog[j].val = ailog[i].val

\* a run of oldgenerate_latex in which get_experience was given two descriptions
C3_Witness ==
    /\ via = "oldgenerate_latex"
    /\ \E i \in 1..Len(ailog) :
           /\ ailog[i].ev = "call" /\ ailog[i].op = "get_experience"
           /\ Len(ailog[i].val.items) = 2

\* C4: every run started from the command line reaches completion, whatever
\* the backend does, and has then written resume.<projectname>.tex and
\* coverletter.<projectname>.tex.
C4_CommandLineRunWritesBothFiles ==
    (via = "main" /\ pc \in {"done", "raised"}) =>
        /\ pc = "done"
        /\ {"resume.<projectname>.tex", "coverletter.<projectname>.tex"} \subseteq files

\* the exceptions a provider call raises
ProviderExceptions == {"APIError", "ValidationError", "TypeError"}

\* C5: each operation of the orchestrator that calls the provider catches
\* every exception of that call and goes on with a placeholder: no exception
\* of the provider leaves the orchestrator.
C5_NoProviderExceptionLeaves ==
    ~(/\ via = "oldgenerate_latex" /\ pc = "raised"
      /\ ailog # <<>> /\ ailog[Len(ailog)].ev = "raised"
      /\ exc = ailog[Len(ailog)].val.type /\ exc \in ProviderExceptions)

\* the reserved characters that stand in a text only behind a backslash once
\* the text is escaped
BareReserved == {"_", "%", "&", "#", "$", "~", "^", "<", ">"}

HasBareReserved(t) ==
    \E i \in 1..Len(t) : t[i] \in BareReserved /\ (i = 1 \/ t[i - 1] # BS)

\* C7: every generated free text that reaches the document (the summary, each
\* job description) has every reserved character escaped.
C7_RenderedTextIsEscaped ==
    /\ \A i \in 1..Len(latex.summary) : ~HasBareReserved(latex.summary[i])
    /\ \A k \in 1..Len(latex.blocks) :
           \A i \in 1..Len(latex.blocks[k].jobentry) :
               ~HasBareReserved(latex.blocks[k].jobentry[i])

\* C11: constructing the provider with the anthropic or the openai backend
\* selected and its key unset raises at construction; a caller that asks for
\* the stub provider gets a working provider in every environment, also
\* through the orchestrator's constructor.
C11_KeylessFailsStubNever ==
    /\ (via = "Ai" /\ env.LLM_PROVIDER = "anthropic" /\ ~env.ANTHROPIC_API_KEY)
           => (pc = "raised" /\ exc = "ValueError")
    /\ (via = "Ai" /\ env.LLM_PROVIDER = "openai" /\ ~env.OPENAI_API_KEY)
           => (pc = "raised" /\ exc = "ValueError")
    /\ via \in {"StubAi", "PyCv(stub)"} => pc = "ready"

-----------------------------------------------------------------------------
(* Claims about the data store *)

\* the files of the data directory that are missing
Missing == {f \in FileNames : datadir[f] = Absent}

\* C12: for every subset of the eight data files present, load_data succeeds,
\* and afterwards each collection whose file is missing is the empty list and
\* the summary and the headers are None when their file is missing: both
\* attributes exist.
C12_MissingFilesLoadEmpty ==
    loaded # <<>> =>
        /\ loaded[Len(loaded)].exc = "none"
        /\ \A f \in Missing :
               /\ AttrOf(f) \in DOMAIN store
               /\ IF f \in CollectionFiles THEN store[AttrOf(f)] = <<>>
                  ELSE store[AttrOf(f)] = None

\* a present file of the data directory has malformed content
HasMalformed == \E f \in FileNames : datadir[f] \in Malformed(f)

\* C13: a present data file of malformed content (unparseable, empty, a
\* record that lacks a required field or has a value of the wrong type) makes
\* load_data raise, and the construction of the orchestrator then fails
\* before any generative call is issued.
C13_MalformedFileFailsConstruction ==
    (loaded # <<>> /\ HasMalformed) =>
        /\ loaded[1].exc # "none"
        /\ pc = "raised" /\ exc = loaded[1].exc
        /\ ailog = <<>>

\* the collection files that are present
PresentCollections == {f \in CollectionFiles : datadir[f].kind = "yaml"}

\* the records of a present collection file, in the file's order
FileRecords(f) == [i \in 1..Len(datadir[f].data) |-> Record(f, datadir[f].data[i])]

\* the records of a sequence that have a given key, in the sequence's order
OfKey(records, k) == LET HasKey(r) == r.key = k IN SelectSeq(records, HasKey)

\* how often a record stands in a sequence
Count(records, r) == Cardinality({i \in 1..Len(records) : records[i] = r})

\* the last load_data returned
LastLoadOk == loaded # <<>> /\ loaded[Len(loaded)].exc = "none" /\ store # YamlStore

\* C14: after load_data each collection is ordered by its key ascending
\* (edu, job, category name, language name), is a permutation of the file's
\* records, and records of equal keys keep their order from the file.
C14_CollectionsSortedStably ==
    LastLoadOk =>
        \A f \in PresentCollections :
            LET got == store[AttrOf(f)]
                file == FileRecords(f)
            IN  /\ \A i, j \in 1..Len(got) :
                       i < j => ~KeyLess(f, got[j].key, got[i].key)
                /\ Len(got) = Len(file)
                /\ \A i \in 1..Len(file) : Count(got, file[i]) = Count(file, file[i])
                /\ \A k \in KeysOf(f) : OfKey(got, k) = OfKey(file, k)

\* jobs.yaml has two records of one job, which keep their order, and
\* skills.yaml two categories out of order, which are put in order
C14_Witness ==
    /\ LastLoadOk
    /\ {"jobs.yaml", "skills.yaml"} \subseteq PresentCollections
    /\ Len(datadir["jobs.yaml"].data) = 2
    /\ datadir["jobs.yaml"].data[1].key = datadir["jobs.yaml"].data[2].key
    /\ datadir["jobs.yaml"].data[1].id = "b" /\ datadir["jobs.yaml"].data[2].id = "a"
    /\ store.jobs[1].id = "b" /\ store.jobs[2].id = "a"
    /\ FileRecords("skills.yaml") = <<[key |-> <<97>>, id |-> "a"], [key |-> <<66>>, id |-> "b"]>>
    /\ store.skills = <<[key |-> <<66>>, id |-> "b"], [key |-> <<97>>, id |-> "a"]>>

\* C15: load_data called again on the same unchanged directory, on the same
\* store or on another one, yields the same collections as the call before:
\* it replaces what the store held, so no record is duplicated and the order
\* is the same.
C15_LoadTwiceSameCollections ==
    \A i, j \in 1..Len(loaded) :
        /\ loaded[i].exc = loaded[j].exc
        /\ \A f \in CollectionFiles :
               /\ loaded[i].store[AttrOf(f)] = loaded[j].store[AttrOf(f)]
               /\ f \in PresentCollections =>
                      Len(loaded[j].store[AttrOf(f)]) = Len(datadir[f].data)

\* two loads of a directory whose collections hold two records each
C15_Witness ==
    /\ Len(loaded) = 2
    /\ store = loaded[2].store
    /\ PresentCollections = CollectionFiles
    /\ \A f \in CollectionFiles : Len(store[AttrOf(f)]) = 2

RECURSIVE SumOf(_, _, _)
\* the sum of one count (input, output or total) of the tokens or of the
\* cost of the records
SumOf(records, field, count) ==
    IF records = <<>> THEN 0
    ELSE Head(records)[field][count] + SumOf(Tail(records), field, count)

\* C29: after any sequence of track_call and reset the token totals are the
\* sums of the token counts of the records in the list and total_cost the sum
\* of their cost totals, each record's token total is its input plus its
\* output, and the reported total_calls is the length of the list; after
\* reset all of these are zero and the price table is unchanged.
C29_TotalsAreSums ==
    /\ [](pc = "ready" =>
              /\ total_tokens.input = SumOf(calls, "tokens", "input")
              /\ total_tokens.output = SumOf(calls, "tokens", "output")
              /\ total_cost = SumOf(calls, "cost", "total")
              /\ \A k \in 1..Len(calls) :
                     calls[k].tokens.total = calls[k].tokens.input + calls[k].tokens.output
              /\ CostSummary.total_calls = Len(calls)
              /\ CostSummary.total_tokens = total_tokens
              /\ CostSummary.total_cost_usd = total_cost)
    /\ [][TrackerReset =>
              /\ calls' = <<>>
              /\ total_tokens' = [input |-> 0, output |-> 0]
              /\ total_cost' = 0
              /\ pricing' = pricing]_vars

\* a call tracked after a reset: the log written before the reset holds
\* another record than the list does
C29_Witness ==
    /\ pc = "ready"
    /\ Len(calls) = 1 /\ total_cost > 0
    /\ logs # <<>> /\ logs[1].calls[1] # calls[1]

-----------------------------------------------------------------------------
(* Claims about the job posting *)

\* the inputs that begin with a URL scheme prefix
UrlLinks == {"https://example.org/job"}

\* the text of the file at each input that is a path
FileContents == [path \in JobLinks \ UrlLinks |-> "We are hiring an engineer."]

\* C16: the posting text substituted into every prompt is the input itself
\* when the input begins with a URL scheme prefix, and the contents of the
\* file at that path otherwise, never the path string.
C16_PathInputPostsFileContents ==
    \A k \in 1..Len(posted) :
        posted[k] = IF joblink \in UrlLinks THEN joblink ELSE FileContents[joblink]

-----------------------------------------------------------------------------
(* Claims about the cost tracker *)

\* the remote table, when the fetch succeeds
RemoteFetched == RemoteTable(remote.data)

\* C17 as stated: the construction of a CostTracker never fails because of
\* pricing; a readable pricing.json is the table used, and the remote source
\* is then not fetched; otherwise the remote table is used when the fetch
\* succeeds, and the compiled-in default table when it fails.
C17_ReadableFileIsUsed ==
    /\ pc \in {"start", "ready"} /\ exc = "none"
    /\ pc = "ready" =>
           IF pricing_json.kind = "json"
           THEN pricing = pricing_json.data /\ fetched = 0
           ELSE IF remote.kind = "csv"
           THEN pricing = RemoteFetched /\ fetched = 1
           ELSE pricing = DefaultPricing /\ fetched = 1

\* C17 amended: as stated, but a readable pricing.json that holds an empty
\* value leaves the compiled-in default table, the remote source not fetched.
C17_NonEmptyFileIsUsed ==
    /\ pc \in {"start", "ready"} /\ exc = "none"
    /\ pc = "ready" =>
           IF pricing_json.kind = "json"
           THEN /\ fetched = 0
                /\ pricing = IF pricing_json.data = <<>> THEN DefaultPricing
                             ELSE pricing_json.data
           ELSE IF remote.kind = "csv"
           THEN pricing = RemoteFetched /\ fetched = 1
           ELSE pricing = DefaultPricing /\ fetched = 1

\* a tracker made from a readable table while the remote source would have
\* answered, and calls tracked with it
C17_Witness ==
    /\ pc = "ready"
    /\ pricing_json.kind = "json" /\ pricing_json.data # <<>>
    /\ remote.kind = "csv"
    /\ pricing = pricing_json.data /\ pricing # RemoteFetched
    /\ fetched = 0
    /\ calls # <<>>

\* the list after a step begins with the list before it
KeepsRecords == Len(calls') >= Len(calls) /\ SubSeq(calls', 1, Len(calls)) = calls

\* one record is added at the end, with the fields of a call record
AddsOneRecord ==
    /\ Len(calls') = Len(calls) + 1
    /\ KeepsRecords
    /\ LET call_data == calls'[Len(calls')]
       IN  /\ {"provider", "model", "operation", "tokens", "cost"} \subseteq DOMAIN call_data
           /\ call_data.provider = "anthropic" /\ call_data.model = <<"a">>
           /\ call_data.operation = "get_summary"
           /\ total_tokens'.input = total_tokens.input + call_data.tokens.input
           /\ total_tokens'.output = total_tokens.output + call_data.tokens.output
           /\ total_cost' = total_cost + call_data.cost.total

\* C18 as stated: the call list is append-only; each track_call adds exactly
\* one record at the end, and no operation on a tracker removes, reorders or
\* changes a record already in the list.
C18_CallListAppendOnly ==
    [][/\ TrackerTrackCall => AddsOneRecord
       /\ KeepsRecords]_vars

\* C18 amended: as stated of every operation but reset, which empties the
\* list.
C18_AppendOnlyButReset ==
    [][/\ TrackerTrackCall => AddsOneRecord
       /\ ~TrackerReset => KeepsRecords
       /\ TrackerReset => calls' = <<>>]_vars

\* two calls tracked and a log written between them: the first record stays
C18_Witness ==
    /\ Len(calls) = 2 /\ calls[1] # calls[2]
    /\ logs # <<>> /\ logs[1].calls = <<calls[1]>>

\* the operations whose request the backend answered, in order
AnsweredOperations ==
    LET Answered(e) == e.ev = "request" /\ e.val.type # "raise"
        requests == SelectSeq(ailog, Answered)
    IN  [k \in 1..Len(requests) |-> requests[k].op]

\* C19: every ask that receives a backend response appends exactly one cost
\* record labelled with its operation, on each of the three backends and for
\* every decode path of the response; an ask whose request fails appends none.
C19_OneRecordForEachResponse ==
    /\ Len(calls) = Len(AnsweredOperations)
    /\ \A k \in 1..Len(calls) : calls[k].operation = AnsweredOperations[k]

\* C20: when a run completes after at least one tracked call, exactly one
\* cost log cost_log_<projectname>_<timestamp>.json has been written, with
\* every call record of the run in order and the tracker's totals, and the
\* totals summary has been printed.
C20_CompletedRunWritesCostLog ==
    (pc = "done" /\ calls # <<>>) =>
        /\ Len(logs) = 1
        /\ logs[1].calls = calls
        /\ logs[1].summary = CostSummary
        /\ printed # <<>>

-----------------------------------------------------------------------------
(* Claims about the command-line run *)

\* the two documents of a run
OutputFiles == {"resume.<projectname>.tex", "coverletter.<projectname>.tex"}

\* how often xelatex was run on a file
TimesRun(f) == Cardinality({i \in 1..Len(typeset) : typeset[i] = f})

\* C21: when compilation is requested, a command-line run invokes xelatex
\* exactly twice on each of the two output files, each written before; when
\* it is not requested, xelatex is never invoked.
C21_CompileTypesetsEachFileTwice ==
    (via = "main" /\ pc \in {"done", "raised"}) =>
        IF compile
        THEN \A f \in OutputFiles : f \in files /\ TimesRun(f) = 2
        ELSE typeset = <<>>

-----------------------------------------------------------------------------
(* Claims about the token counts *)

\* the requests the backend answered, in order
AnsweredRequests ==
    LET Answered(e) == e.ev = "request" /\ e.val.type # "raise"
    IN  SelectSeq(ailog, Answered)

\* C22: for every backend response the token counts recorded for the call are
\* the counts the backend reported whenever it reported usage, also when a
\* reported count is zero, and otherwise len(prompt) // 4 for the input and
\* len(str(response)) // 4 for the output.
C22_ReportedUsageIsRecorded ==
    (provider_type # "custom" /\ Len(calls) = Len(AnsweredRequests)) =>
        \A k \in 1..Len(calls) :
            LET answer == AnsweredRequests[k].val
            IN  IF answer.usage # NoUsage
                THEN /\ calls[k].tokens.input = answer.usage.input
                     /\ calls[k].tokens.output = answer.usage.output
                ELSE \E n \in PromptLens :
                         /\ calls[k].tokens.input = n \div 4
                         /\ calls[k].tokens.output = StrLen(answer.response) \div 4

-----------------------------------------------------------------------------
(* Claims about the custom backend *)

\* the response model of the operations that return what ask returns
DirectModel(op) == IF op = "get_summary" THEN "Summary" ELSE "Letterinfo"

\* C23: with the custom backend, a response text that decodes into the target
\* shape is returned decoded; a text that is not JSON, or JSON that does not
\* validate, gives the simplest instance of the shape with the raw text in
\* its text field; no exception is raised.
C23_CustomDecodesOrWraps ==
    provider_type = "custom" =>
        \A i \in 1..(Len(ailog) - 1) :
            (ailog[i].ev = "request"
                 /\ ailog[i].val.type \in {"text", "json_valid", "json_invalid"}) =>
                LET answer == ailog[i].val
                    result == ailog[i + 1]
                IN  /\ result.ev # "raised"
                    /\ ailog[i].op \in {"get_summary", "get_letterinfo"} =>
                           result.val =
                               IF answer.type = "json_valid" THEN answer.response
                               ELSE TextFallbackFor(DirectModel(ailog[i].op), answer.raw).value
                    /\ (ailog[i].op = "get_job_summaries" /\ answer.type = "json_valid"
                            /\ answer.response # None) =>
                           Len(result.val.items) = Len(answer.response.items)

-----------------------------------------------------------------------------
(* Claims about the placeholders of ask *)

\* the fixed placeholder of each request when it fails
PlaceholderOf(request) ==
    IF request = "get_summary" THEN FallbackFor("Summary").value
    ELSE IF request = "get_letterinfo" THEN FallbackFor("Letterinfo").value
    ELSE IF request = "get_job_summaries"
    THEN List(<<JobDescription(1, Phrase("Failed to generate description due to API error."))>>)
    ELSE List(<<Cvitem(1, Phrase("Failed to generate item due to API error."))>>)

\* C24: with the anthropic or the openai backend, an ask whose request raises
\* returns the fixed placeholder of the requested shape and does not raise,
\* for Summary, Letterinfo and the lists of JobDescription, Cvitem and
\* CarStory alike; two failing calls for one shape return equal values.
C24_FailedRequestGivesPlaceholder ==
    provider_type \in {"anthropic", "openai"} =>
        \A i \in 1..(Len(ailog) - 1) :
            (ailog[i].ev = "request" /\ ailog[i].val.type = "raise") =>
                IF ailog[i].op = "get_experience_stories"
                THEN ailog[i + 1].ev = "request"
                ELSE /\ ailog[i + 1].ev = "returned"
                     /\ ailog[i + 1].val = PlaceholderOf(ailog[i].op)

-----------------------------------------------------------------------------
(* Claims about the two stages of get_experience *)

\* the positions of ailog where get_experience is called
ExperienceCalls ==
    {i \in 1..Len(ailog) : ailog[i].ev = "call" /\ ailog[i].op = "get_experience"}

\* the selection answered with no story: it raised, or gave None or []
NothingSelected(answer) ==
    \/ answer.type = "raise"
    \/ answer.response = None
    \/ answer.response.items = <<>>

\* C25: get_experience sends the refinement request only after the selection
\* request has returned, with exactly the selected list as its achievements
\* and the `descriptions` argument as its descriptions; when the selection
\* gives None or an empty list it returns [] and sends no refinement request.
C25_RefinementFollowsSelection ==
    /\ \A i \in ExperienceCalls :
           /\ ailog[i + 1].ev = "request" /\ ailog[i + 1].op = "get_experience_stories"
           /\ IF ailog[i + 2].ev = "request"
              THEN /\ ailog[i + 2].op = "refine_experience_items"
                   /\ ~NothingSelected(ailog[i + 1].val)
                   /\ ailog[i + 2].val.cars = ailog[i + 1].val.response.items
                   /\ ailog[i + 2].val.descriptions = ailog[i].val
                   /\ ailog[i + 3].ev = "returned"
              ELSE ailog[i + 2] = Event("returned", "get_experience", List(<<>>))
           /\ NothingSelected(ailog[i + 1].val) =>
                  ailog[i + 2] = Event("returned", "get_experience", List(<<>>))
    /\ \A j \in 1..Len(ailog) :
           (ailog[j].ev = "request" /\ ailog[j].op = "refine_experience_items") =>
               j - 2 \in ExperienceCalls

\* the one selected story refined, conditioned on the two descriptions that
\* get_job_summaries returned before
C25_Witness ==
    \E j \in ExperienceCalls :
        /\ ailog[j + 1].val.type = "response"
        /\ ailog[j + 2].ev = "request"
        /\ ailog[j + 2].val.cars = <<CarStory(1, <<"a">>)>>
        /\ Len(ailog[j + 2].val.descriptions.items) = 2
        /\ ailog[j + 3].val.type = "list" /\ ailog[j + 3].val.items # <<>>

-----------------------------------------------------------------------------
(* Claims about _latex_escape *)

\* the escape _latex_escape lists for a character, the character itself when
\* it lists none
ListedEscapeOf(c) ==
    IF \E i \in 1..Len(latex_escape_list) : latex_escape_list[i] = c
    THEN latex_escape_change_to[CHOOSE i \in 1..Len(latex_escape_list) :
                                    latex_escape_list[i] = c]
    ELSE <<c>>

\* C26: _latex_escape escapes every occurrence of every reserved character
\* class present in the text (backslash, caret, tilde, ampersand, percent,
\* dollar, hash, underscore, braces), not only the first class found.
C26_EveryClassEscaped ==
    sanitized.fn = "_latex_escape" =>
        sanitized.out = Concat([i \in 1..Len(text) |-> ListedEscapeOf(text[i])])

-----------------------------------------------------------------------------
(* Claims about retries *)

\* the prompts of a run, by the label of their request
Prompts == {"get_summary", "get_job_summaries", "get_experience_stories",
            "refine_experience_items", "get_letterinfo"}

\* how often a prompt was sent to the backend
TimesSent(prompt) ==
    Cardinality({i \in 1..Len(ailog) : ailog[i].ev = "request" /\ ailog[i].op = prompt})

-----------------------------------------------------------------------------
(* Claims about the lifecycle of the records *)

\* C28: records are read-only after their creation; once the store is
\* loaded no generative operation and no rendering step changes any of its
\* collections, and what a provider operation has returned stays as it was
\* returned.
C28_RecordsReadOnly ==
    [][/\ pc # "start" => store' = store
       /\ Len(ailog') >= Len(ailog)
       /\ SubSeq(ailog', 1, Len(ailog)) = ailog]_vars

\* a run at its end: two jobs loaded, descriptions and items generated and
\* rendered, the store as load_data left it
C28_Witness ==
    /\ via = "oldgenerate_latex" /\ pc = "done"
    /\ Len(store.jobs) = 2 /\ store = loaded[1].store
    /\ latex.blocks # <<>>
    /\ \E i \in 1..Len(ailog) :
           /\ ailog[i].ev = "returned" /\ ailog[i].op = "get_experience"
           /\ ailog[i].val.items # <<>>

-----------------------------------------------------------------------------
(* Specifications *)

RunParked ==
    /\ env = [LLM_PROVIDER |-> "anthropic", ANTHROPIC_API_KEY |-> TRUE,
              OPENAI_API_KEY |-> FALSE, LLM_BASE_URL |-> FALSE]
    /\ store = NoStore
    /\ pc = "start" /\ via = "none" /\ exc = "none"
    /\ latex = [summary |-> <<>>, blocks |-> <<>>]
    /\ files = {}

\* no data directory is read
DataParked == datadir = [f \in FileNames |-> Absent] /\ loaded = <<>>

\* no tracker is constructed from the pricing sources
SrcParked ==
    /\ pricing_json = NoFile /\ remote = FetchFails /\ fetched = 0
    /\ logs = <<>> /\ printed = <<>>

SpecRunInit == SanParked /\ AiInit /\ RunInit /\ SrcParked

SpecRunNext ==
    \/ Main /\ UNCHANGED <<sanVars, srcVars>>
    \/ Construct /\ UNCHANGED <<sanVars, srcVars>>
    \/ GenerateLatex /\ UNCHANGED <<sanVars, srcVars>>
    \/ SaveLatex /\ UNCHANGED <<sanVars, srcVars>>
    \/ HeaderInformation /\ UNCHANGED <<sanVars, srcVars>>
    \/ SummarySection /\ UNCHANGED <<sanVars, srcVars>>
    \/ ExperienceSectionStep /\ UNCHANGED <<sanVars, srcVars>>
    \/ RemainingSections /\ UNCHANGED <<sanVars, srcVars>>

\* a run from the command line or of a PyCv object, for each provider
SpecRun == SpecRunInit /\ [][SpecRunNext]_vars

SpecGroupInit == SanParked /\ GroupInit /\ SrcParked

SpecGroupNext == ExperienceSectionAlone /\ UNCHANGED <<sanVars, srcVars>>

\* the experience section of every sorted Job collection
SpecGroup == SpecGroupInit /\ [][SpecGroupNext]_vars

SpecSanitizeInit ==
    SanInit /\ CostParked /\ AiParked /\ RunParked /\ DataParked /\ JobParked /\ SrcParked

SpecSanitizeNext ==
    \/ Sanitize /\ UNCHANGED <<costVars, aiVars, runVars, dataVars, jobVars, srcVars>>
    \/ LatexEscape /\ UNCHANGED <<costVars, aiVars, runVars, dataVars, jobVars, srcVars>>

\* the two sanitizers, each applied once to every bounded text
SpecSanitize == SpecSanitizeInit /\ [][SpecSanitizeNext]_vars

SpecPriceInit ==
    SanParked /\ CostInit /\ AiParked /\ RunParked /\ DataParked /\ JobParked /\ SrcParked

SpecPriceNext ==
    TrackFirstCall /\ UNCHANGED <<sanVars, aiVars, runVars, dataVars, jobVars, srcVars>>

\* track_call on every bounded price table
SpecPrice == SpecPriceInit /\ [][SpecPriceNext]_vars

SpecAiInit == SanParked /\ AiInit /\ RunParked /\ DataParked /\ JobParked /\ SrcParked

SpecAiNext ==
    \/ AiGetSummary /\ UNCHANGED <<sanVars, runVars, dataVars, srcVars>>
    \/ AiGetLetterinfo /\ UNCHANGED <<sanVars, runVars, dataVars, srcVars>>
    \/ AiGetJobSummaries /\ UNCHANGED <<sanVars, runVars, dataVars, srcVars>>
    \/ AiGetExperience /\ UNCHANGED <<sanVars, runVars, dataVars, srcVars>>

\* the four operations called on an Ai object of each provider
SpecAi == SpecAiInit /\ [][SpecAiNext]_vars

SpecProviderInit ==
    /\ SanParked /\ JobParked /\ SrcParked
    /\ env \in Envs
    /\ provider_type = "anthropic" /\ ailog = <<>>
    /\ pricing = DefaultPricing /\ calls = <<>>
    /\ total_tokens = [input |-> 0, output |-> 0] /\ total_cost = 0
    /\ datadir \in {RunDir(<<2, 1>>, TRUE, FALSE), [f \in FileNames |-> Absent]}
    /\ store = NoStore /\ loaded = <<>>
    /\ pc = "start" /\ via = "none" /\ exc = "none"
    /\ latex = NoLatex
    /\ files = {}

SpecProviderNext ==
    \/ ConstructAi /\ UNCHANGED <<sanVars, srcVars>>
    \/ ConstructStubAi /\ UNCHANGED <<sanVars, srcVars>>
    \/ Construct /\ UNCHANGED <<sanVars, srcVars>>
    \/ ConstructWithStub /\ UNCHANGED <<sanVars, srcVars>>

\* the constructions of a provider, in every environment
SpecProvider == SpecProviderInit /\ [][SpecProviderNext]_vars

SpecLoadInit ==
    /\ SanParked /\ CostParked /\ AiParked /\ JobParked /\ SrcParked
    /\ LoadInit
    /\ env = [LLM_PROVIDER |-> "anthropic", ANTHROPIC_API_KEY |-> TRUE,
              OPENAI_API_KEY |-> FALSE, LLM_BASE_URL |-> FALSE]
    /\ pc = "start" /\ via = "none" /\ exc = "none"
    /\ latex = NoLatex
    /\ files = {}

SpecLoadNext ==
    \/ LoadData /\ UNCHANGED <<sanVars, costVars, aiVars, jobVars, srcVars,
                               env, pc, via, exc, latex, files>>
    \/ NewStore /\ UNCHANGED <<sanVars, costVars, aiVars, jobVars, srcVars,
                               env, pc, via, exc, latex, files>>

\* load_data on a store of every bounded data directory
SpecLoad == SpecLoadInit /\ [][SpecLoadNext]_vars

SpecTrackerInit ==
    /\ SanParked /\ AiParked /\ DataParked /\ JobParked
    /\ TrackerInit
    /\ env = [LLM_PROVIDER |-> "anthropic", ANTHROPIC_API_KEY |-> TRUE,
              OPENAI_API_KEY |-> FALSE, LLM_BASE_URL |-> FALSE]
    /\ store = NoStore
    /\ via = "none" /\ exc = "none"
    /\ latex = NoLatex
    /\ files = {}

SpecTrackerNext ==
    \/ NewCostTracker /\ UNCHANGED <<sanVars, aiVars, dataVars, jobVars,
                                     env, store, via, exc, latex, files>>
    \/ TrackerTrackCall /\ UNCHANGED <<sanVars, aiVars, dataVars, jobVars,
                                       env, store, via, exc, latex, files>>
    \/ TrackerReset /\ UNCHANGED <<sanVars, aiVars, dataVars, jobVars,
                                   env, store, via, exc, latex, files>>
    \/ SaveLog /\ UNCHANGED <<sanVars, aiVars, dataVars, jobVars,
                              env, store, via, exc, latex, files>>
    \/ PrintSummary /\ UNCHANGED <<sanVars, aiVars, dataVars, jobVars,
                                   env, store, via, exc, latex, files>>

\* a tracker constructed from every pricing source, and the operations on it
SpecTracker == SpecTrackerInit /\ [][SpecTrackerNext]_vars

====
